---- MODULE Spec2Model ----
(***************************************************************************)
(* Verification model of the command-line-rust utilities.                  *)
(*                                                                         *)
(*   commr  (src/commr/src/lib.rs)  : run, the three-way merge of two      *)
(*                                    line sources, with its print and     *)
(*                                    case closures and open.              *)
(*   grepr  (src/grepr/src/lib.rs)  : find_lines.                          *)
(*                                                                         *)
(* A Rust String is a finite sequence of byte values (0..255); str::cmp is *)
(* the lexicographic order on those sequences.  Option<T> is a sequence of *)
(* length at most one: None is <<>> and Some(x) is <<x>>.                  *)
(***************************************************************************)
EXTENDS Integers, Sequences, FiniteSets, TLC

VARIABLES
    config,     \* commr Config: file1, file2, show_col1..3, insensitive, delimiter
    stream1,    \* the read results the stream behind lines1 holds, in order
    stream2,    \* the same for lines2
    opened1,    \* open(file1) has returned Ok
    opened2,    \* open(file2) has returned Ok
    pos1,       \* number of read results of stream1 consumed so far
    pos2,       \* number of read results of stream2 consumed so far
    pulls1,     \* number of calls lines1.next() made so far
    pulls2,     \* number of calls lines2.next() made so far
    line1,      \* Option<String>: the pending line of source A
    line2,      \* Option<String>: the pending line of source B
    stdout,     \* the lines written by println!, in order
    log,        \* history: one record per iteration of the while loop (the
                \* state it found, the arm's class, text and output, and the
                \* stream positions of the pending lines it found)
    pc,         \* position of run
    result,     \* what run has returned
    input,      \* grepr: the bytes find_lines is called on
    pattern,    \* grepr: the pattern, a literal with its case_insensitive flag
    invert_match,   \* grepr: the invert_match argument of the call
    file,       \* grepr: the bytes the reader has not handed out yet
    buffer,     \* grepr: the buffer of find_lines
    results,    \* grepr: the results vector of find_lines
    matches,    \* grepr: what the call with invert_match = false returned
    grep_pc,    \* grepr: position of find_lines
    paths,      \* fortuner: the files read_fortunes is called on, each with
                \* its file name and the read results its stream holds
    fortunes,   \* fortuner: the fortunes vector of read_fortunes
    buf,        \* fortuner: the buf vector of read_fortunes
    path_idx,   \* fortuner: index in paths of the file being read
    line_idx,   \* fortuner: number of read results of that file consumed
    basename,   \* fortuner: the basename of the file being read
    fortune_pc  \* fortuner: position of read_fortunes

commr_vars == <<config, stream1, stream2, opened1, opened2, pos1, pos2,
                pulls1, pulls2, line1, line2, stdout, log, pc, result>>

grepr_vars == <<input, pattern, invert_match, file, buffer, results,
                matches, grep_pc>>

fortuner_vars == <<paths, fortunes, buf, path_idx, line_idx, basename,
                   fortune_pc>>

vars == <<commr_vars, grepr_vars, fortuner_vars>>

(***************************************************************************)
(* Bounds of the model.                                                    *)
(***************************************************************************)
\* The most read results the two streams hold together (the concrete
\* scenario of three lines a side is drawn besides).
MaxItems == 3

\* The most bytes of an input of find_lines (the text of test_find_lines is
\* drawn besides).
MaxBytes == 4

\* The most read results one file of read_fortunes holds.
MaxFileLines == 2

(***************************************************************************)
(* Strings.                                                                *)
(***************************************************************************)
None == <<>>
Some(x) == <<x>>

Dash == <<45>>                                     \* "-"
PathF == <<102, 46, 116, 120, 116>>                \* "f.txt"
Tab == <<9>>                                       \* "\t"
Comma == <<44>>                                    \* ","
UpperA == <<65>>                                   \* "A"
LowerA == <<97>>                                   \* "a"
apple == <<97, 112, 112, 108, 101>>
banana == <<98, 97, 110, 97, 110, 97>>
cherry == <<99, 104, 101, 114, 114, 121>>
date == <<100, 97, 116, 101>>

\* "Both input files cannot be STDIN (\"-\")"
StdinMsg ==
    <<66, 111, 116, 104, 32, 105, 110, 112, 117, 116, 32, 102, 105, 108,
      101, 115, 32, 99, 97, 110, 110, 111, 116, 32, 98, 101, 32, 83, 84,
      68, 73, 78, 32, 40, 34, 45, 34, 41>>

\* The Display text of the io::Error File::open returns:
\* "No such file or directory (os error 2)"
IoErrorText ==
    <<78, 111, 32, 115, 117, 99, 104, 32, 102, 105, 108, 101, 32, 111, 114,
      32, 100, 105, 114, 101, 99, 116, 111, 114, 121, 32, 40, 111, 115, 32,
      101, 114, 114, 111, 114, 32, 50, 41>>

\* char::to_lowercase on an ASCII byte.
LowerByte(b) == IF b \in 65..90 THEN b + 32 ELSE b

\* String::to_lowercase.
to_lowercase(s) == [i \in 1..Len(s) |-> LowerByte(s[i])]

\* str::cmp: lexicographic comparison of the bytes.
Cmp(a, b) ==
    LET n == IF Len(a) < Len(b) THEN Len(a) ELSE Len(b)
        diff == {i \in 1..n : a[i] # b[i]}
    IN  IF diff = {}
        THEN IF Len(a) < Len(b) THEN "Less"
             ELSE IF Len(a) > Len(b) THEN "Greater" ELSE "Equal"
        ELSE LET i == CHOOSE j \in diff : \A k \in diff : j <= k
             IN  IF a[i] < b[i] THEN "Less" ELSE "Greater"

\* [&str]::join
RECURSIVE join(_, _)
join(columns, sep) ==
    IF columns = <<>> THEN <<>>
    ELSE IF Len(columns) = 1 THEN columns[1]
    ELSE columns[1] \o sep \o join(Tail(columns), sep)

(***************************************************************************)
(* The environment: configurations and the contents of the streams.        *)
(***************************************************************************)
Paths == {Dash, PathF}
Delimiters == {Tab, Comma}

Configs ==
    [file1 : Paths, file2 : Paths,
     show_col1 : BOOLEAN, show_col2 : BOOLEAN, show_col3 : BOOLEAN,
     insensitive : BOOLEAN, delimiter : Delimiters]

\* One result of BufRead::lines: Ok(text), or Err for a line that is not
\* valid UTF-8 (its bytes are consumed all the same).
OkLine(s) == [ok |-> TRUE, text |-> s]
BadLine == [ok |-> FALSE, text |-> <<>>]

Lines == {UpperA, LowerA}
Items == {OkLine(s) : s \in Lines} \cup {BadLine}

ScenarioA == <<OkLine(apple), OkLine(banana), OkLine(cherry)>>
ScenarioB == <<OkLine(banana), OkLine(cherry), OkLine(date)>>

Scenarios == {ScenarioA, ScenarioB}

Streams == UNION {[1..n -> Items] : n \in 0..MaxItems} \cup Scenarios

\* The pairs of streams drawn for two different sources.
PairDrawn(s1, s2) ==
    \/ Len(s1) + Len(s2) <= MaxItems
    \/ {s1, s2} \subseteq Scenarios

\* What a read at the end of the stream's data does: report end-of-data, or
\* fail without consuming anything (a directory opened as a file, a failing
\* device), in which case every later read fails the same way.
EndOutcomes == {"eof", "ioerr"}

(***************************************************************************)
(* commr: the closures of run.                                             *)
(***************************************************************************)
\* Mutant of BothStdin: || written for &&.
BothStdinEither(file1, file2) == file1 = Dash \/ file2 = Dash

\* The check at the head of run.
BothStdin(file1, file2) == file1 = Dash /\ file2 = Dash

\* Mutant of case: the line is handed on unfolded.
caseKeep(line) == line

\* The case closure.
case(line) == IF config.insensitive THEN to_lowercase(line) ELSE line

\* Mutant of Columns: Col1 pushes val without asking show_col1.
ColumnsCol1Always(col, val) ==
    CASE col = "Col1" -> <<val>>
      [] col = "Col2" ->
            IF config.show_col2
            THEN (IF config.show_col1 THEN <<<<>>>> ELSE <<>>) \o <<val>>
            ELSE <<>>
      [] col = "Col3" ->
            IF config.show_col3
            THEN (IF config.show_col1 THEN <<<<>>>> ELSE <<>>)
                 \o (IF config.show_col2 THEN <<<<>>>> ELSE <<>>)
                 \o <<val>>
            ELSE <<>>

\* The columns vector the print closure builds for Column::Col1/2/3(val).
Columns(col, val) ==
    CASE col = "Col1" ->
            IF config.show_col1 THEN <<val>> ELSE <<>>
      [] col = "Col2" ->
            IF config.show_col2
            THEN (IF config.show_col1 THEN <<<<>>>> ELSE <<>>) \o <<val>>
            ELSE <<>>
      [] col = "Col3" ->
            IF config.show_col3
            THEN (IF config.show_col1 THEN <<<<>>>> ELSE <<>>)
                 \o (IF config.show_col2 THEN <<<<>>>> ELSE <<>>)
                 \o <<val>>
            ELSE <<>>

\* Mutant of print: an empty columns vector is printed as an empty line.
printBlankWhenEmpty(col, val) ==
    LET columns == Columns(col, val)
    IN  IF columns # <<>> THEN <<join(columns, config.delimiter)>> ELSE <<<<>>>>

\* The print closure: the lines it writes (none or one).
print(col, val) ==
    LET columns == Columns(col, val)
    IN  IF columns # <<>> THEN <<join(columns, config.delimiter)>> ELSE <<>>

\* Mutant of RawEmit: the line goes through print as a column-2 line.
RawEmitAsCol2(val) == print("Col2", val)

\* println!("{}", val) of the (Some, None) and (None, Some) arms.
RawEmit(val) == <<val>>

\* Mutant of OpenErrMsg: the io::Error alone, without the path.
OpenErrMsgBare(filename, e) == e

\* The message open gives a failed File::open.
OpenErrMsg(filename, e) == filename \o <<58, 32>> \o e

\* The least index after pos holding an Ok result, 0 when there is none.
FirstOk(stream, pos) ==
    LET S == {i \in (pos + 1)..Len(stream) : stream[i].ok}
    IN  IF S = {} THEN 0 ELSE CHOOSE i \in S : \A j \in S : i <= j

\* lines.next() with lines = open(..)?.lines().filter_map(Result::ok).map(case):
\* Err results are skipped, the first Ok line is folded by case and returned.
\* At the end of the data the read either reports end-of-data (ret = "eof",
\* the call returns None) or keeps failing (ret = "ioerr"): filter_map then
\* asks again, for ever, and the call does not return.
NextLine(stream, pos, atEnd) ==
    LET i == FirstOk(stream, pos)
    IN  IF i # 0
        THEN [ret |-> "some", line |-> Some(case(stream[i].text)), pos |-> i]
        ELSE [ret |-> atEnd, line |-> None, pos |-> Len(stream)]

\* The state of the merge: which of the pending lines are present.
MergeState(l1, l2) ==
    IF l1 # None /\ l2 # None THEN "Both"
    ELSE IF l1 # None THEN "OnlyA"
    ELSE IF l2 # None THEN "OnlyB"
    ELSE "Done"

\* Mutant of EqualArm: line2 is not refilled.
EqualArmKeepsB(val1, val2) ==
    [class |-> "Col3", text |-> val1, out |-> print("Col3", val1),
     adv1 |-> TRUE, adv2 |-> FALSE]

\* Ordering::Equal => print(Col3(val1)); line1 = lines1.next(); line2 = lines2.next();
EqualArm(val1, val2) ==
    [class |-> "Col3", text |-> val1, out |-> print("Col3", val1),
     adv1 |-> TRUE, adv2 |-> TRUE]

\* Mutant of LessArm: the refill goes to source B.
LessArmAdvancesB(val1, val2) ==
    [class |-> "Col1", text |-> val1, out |-> print("Col1", val1),
     adv1 |-> FALSE, adv2 |-> TRUE]

\* Ordering::Less => print(Col1(val1)); line1 = lines1.next();
LessArm(val1, val2) ==
    [class |-> "Col1", text |-> val1, out |-> print("Col1", val1),
     adv1 |-> TRUE, adv2 |-> FALSE]

\* Mutant of GreaterArm: B's line is printed and source A is advanced.
GreaterArmAdvancesA(val1, val2) ==
    [class |-> "Col2", text |-> val2, out |-> print("Col2", val2),
     adv1 |-> TRUE, adv2 |-> FALSE]

\* Ordering::Greater => print(Col2(val2)); line2 = lines2.next();
GreaterArm(val1, val2) ==
    [class |-> "Col2", text |-> val2, out |-> print("Col2", val2),
     adv1 |-> FALSE, adv2 |-> TRUE]

\* Mutant of OnlyAArm: source B is pulled as well.
OnlyAArmPullsBoth(val1) ==
    [class |-> "Raw1", text |-> val1, out |-> RawEmit(val1),
     adv1 |-> TRUE, adv2 |-> TRUE]

\* (Some(val1), None) => println!("{}", val1); line1 = lines1.next();
OnlyAArm(val1) ==
    [class |-> "Raw1", text |-> val1, out |-> RawEmit(val1),
     adv1 |-> TRUE, adv2 |-> FALSE]

\* Mutant of OnlyBArm: the line goes through print as Column::Col2.
OnlyBArmFormatted(val2) ==
    [class |-> "Raw2", text |-> val2, out |-> print("Col2", val2),
     adv1 |-> FALSE, adv2 |-> TRUE]

\* (None, Some(val2)) => println!("{}", val2); line2 = lines2.next();
OnlyBArm(val2) ==
    [class |-> "Raw2", text |-> val2, out |-> RawEmit(val2),
     adv1 |-> FALSE, adv2 |-> TRUE]

\* The match of the loop body: the arm taken, what it prints and which
\* sources it advances.
Arm(l1, l2) ==
    IF MergeState(l1, l2) = "Both"
    THEN LET ord == Cmp(l1[1], l2[1])
         IN  IF ord = "Equal" THEN EqualArm(l1[1], l2[1])
             ELSE IF ord = "Less" THEN LessArm(l1[1], l2[1])
             ELSE GreaterArm(l1[1], l2[1])
    ELSE IF MergeState(l1, l2) = "OnlyA" THEN OnlyAArm(l1[1])
    ELSE OnlyBArm(l2[1])

Running == [tag |-> "Running", msg |-> <<>>]
Ok == [tag |-> "Ok", msg |-> <<>>]
Err(m) == [tag |-> "Err", msg |-> m]

(***************************************************************************)
(* commr: run as a state machine.                                          *)
(***************************************************************************)
\* grepr is not called.
GrepIdle ==
    /\ input = <<>>
    /\ pattern = [text |-> <<>>, ci |-> FALSE]
    /\ invert_match = FALSE
    /\ file = <<>>
    /\ buffer = <<>>
    /\ results = <<>>
    /\ matches = <<>>
    /\ grep_pc = "idle"

CommrStart ==
    /\ stream1 = <<>>
    /\ stream2 = <<>>
    /\ opened1 = FALSE
    /\ opened2 = FALSE
    /\ pos1 = 0
    /\ pos2 = 0
    /\ pulls1 = 0
    /\ pulls2 = 0
    /\ line1 = None
    /\ line2 = None
    /\ stdout = <<>>
    /\ log = <<>>
    /\ pc = "start"
    /\ result = Running

\* fortuner is not called.
FortuneIdle ==
    /\ paths = <<>>
    /\ fortunes = <<>>
    /\ buf = <<>>
    /\ path_idx = 0
    /\ line_idx = 0
    /\ basename = <<>>
    /\ fortune_pc = "idle"

Init ==
    /\ config \in Configs
    /\ CommrStart
    /\ GrepIdle
    /\ FortuneIdle

\* if file1 == "-" && file2 == "-" { return Err(..) }
CheckStdin ==
    /\ pc = "start"
    /\ IF BothStdin(config.file1, config.file2)
       THEN pc' = "done" /\ result' = Err(StdinMsg)
       ELSE pc' = "open1" /\ result' = result
    /\ UNCHANGED <<config, stream1, stream2, opened1, opened2, pos1, pos2,
                   pulls1, pulls2, line1, line2, stdout, log>>
    /\ UNCHANGED grepr_vars
    /\ UNCHANGED fortuner_vars

\* open(file1)? succeeds: lines1 is built over the stream; nothing is read.
Open1Ok ==
    /\ pc = "open1"
    /\ \E s \in Streams : stream1' = s
    /\ opened1' = TRUE
    /\ pc' = "open2"
    /\ UNCHANGED <<config, stream2, opened2, pos1, pos2, pulls1, pulls2,
                   line1, line2, stdout, log, result>>
    /\ UNCHANGED grepr_vars
    /\ UNCHANGED fortuner_vars

\* open(file1)? fails: File::open returned an error; run returns it.
Open1Err ==
    /\ pc = "open1"
    /\ config.file1 # Dash
    /\ pc' = "done"
    /\ result' = Err(OpenErrMsg(config.file1, IoErrorText))
    /\ UNCHANGED <<config, stream1, stream2, opened1, opened2, pos1, pos2,
                   pulls1, pulls2, line1, line2, stdout, log>>
    /\ UNCHANGED grepr_vars
    /\ UNCHANGED fortuner_vars

\* open(file2)? succeeds.  The same file opened twice holds the same data.
Open2Ok ==
    /\ pc = "open2"
    /\ \E s \in Streams :
          /\ IF config.file2 = config.file1
             THEN s = stream1
             ELSE PairDrawn(stream1, s)
          /\ stream2' = s
    /\ opened2' = TRUE
    /\ pc' = "prime1"
    /\ UNCHANGED <<config, stream1, opened1, pos1, pos2, pulls1, pulls2,
                   line1, line2, stdout, log, result>>
    /\ UNCHANGED grepr_vars
    /\ UNCHANGED fortuner_vars

\* open(file2)? fails.
Open2Err ==
    /\ pc = "open2"
    /\ config.file2 # Dash
    /\ pc' = "done"
    /\ result' = Err(OpenErrMsg(config.file2, IoErrorText))
    /\ UNCHANGED <<config, stream1, stream2, opened1, opened2, pos1, pos2,
                   pulls1, pulls2, line1, line2, stdout, log>>
    /\ UNCHANGED grepr_vars
    /\ UNCHANGED fortuner_vars

\* let mut line1 = lines1.next();
Prime1 ==
    /\ pc = "prime1"
    /\ \E e \in EndOutcomes :
          LET r == NextLine(stream1, pos1, e)
          IN  /\ pos1' = r.pos
              /\ line1' = r.line
              /\ pc' = IF r.ret = "ioerr" THEN "reading1" ELSE "prime2"
    /\ pulls1' = pulls1 + 1
    /\ UNCHANGED <<config, stream1, stream2, opened1, opened2, pos2, pulls2,
                   line2, stdout, log, result>>
    /\ UNCHANGED grepr_vars
    /\ UNCHANGED fortuner_vars

\* let mut line2 = lines2.next();
Prime2 ==
    /\ pc = "prime2"
    /\ \E e \in EndOutcomes :
          LET r == NextLine(stream2, pos2, e)
          IN  /\ pos2' = r.pos
              /\ line2' = r.line
              /\ pc' = IF r.ret = "ioerr" THEN "reading2" ELSE "loop"
    /\ pulls2' = pulls2 + 1
    /\ UNCHANGED <<config, stream1, stream2, opened1, opened2, pos1, pulls1,
                   line1, stdout, log, result>>
    /\ UNCHANGED grepr_vars
    /\ UNCHANGED fortuner_vars

\* One iteration of the while loop: the arm's output, then its refills.  A
\* refill that does not return leaves its pending line unassigned.
Step ==
    /\ pc = "loop"
    /\ MergeState(line1, line2) # "Done"
    /\ \E e1 \in EndOutcomes, e2 \in EndOutcomes :
          LET arm == Arm(line1, line2)
              r1 == NextLine(stream1, pos1, e1)
              r2 == NextLine(stream2, pos2, e2)
              hang1 == arm.adv1 /\ r1.ret = "ioerr"
              call2 == arm.adv2 /\ ~hang1
              hang2 == call2 /\ r2.ret = "ioerr"
          IN  /\ stdout' = stdout \o arm.out
              /\ log' = Append(log, [state |-> MergeState(line1, line2),
                                     class |-> arm.class, text |-> arm.text,
                                     out |-> arm.out,
                                     at1 |-> IF line1 # None THEN pos1 ELSE 0,
                                     at2 |-> IF line2 # None THEN pos2 ELSE 0])
              /\ pulls1' = IF arm.adv1 THEN pulls1 + 1 ELSE pulls1
              /\ pos1' = IF arm.adv1 THEN r1.pos ELSE pos1
              /\ line1' = IF arm.adv1 /\ ~hang1 THEN r1.line ELSE line1
              /\ pulls2' = IF call2 THEN pulls2 + 1 ELSE pulls2
              /\ pos2' = IF call2 THEN r2.pos ELSE pos2
              /\ line2' = IF call2 /\ ~hang2 THEN r2.line ELSE line2
              /\ pc' = IF hang1 THEN "reading1"
                       ELSE IF hang2 THEN "reading2" ELSE "loop"
    /\ UNCHANGED <<config, stream1, stream2, opened1, opened2, result>>
    /\ UNCHANGED grepr_vars
    /\ UNCHANGED fortuner_vars

\* The loop condition fails: Ok(()).
Finish ==
    /\ pc = "loop"
    /\ line1 = None
    /\ line2 = None
    /\ pc' = "done"
    /\ result' = Ok
    /\ UNCHANGED <<config, stream1, stream2, opened1, opened2, pos1, pos2,
                   pulls1, pulls2, line1, line2, stdout, log>>
    /\ UNCHANGED grepr_vars
    /\ UNCHANGED fortuner_vars

\* Inside lines.next() on a stream whose reads keep failing: filter_map
\* drops the Err and asks for the next result; nothing changes.
ReadRetry ==
    /\ pc \in {"reading1", "reading2"}
    /\ UNCHANGED vars

Next ==
    \/ CheckStdin
    \/ Open1Ok
    \/ Open1Err
    \/ Open2Ok
    \/ Open2Err
    \/ Prime1
    \/ Prime2
    \/ Step
    \/ Finish
    \/ ReadRetry

Spec == Init /\ [][Next]_vars

\* run is one sequential thread that is never suspended: whenever it can
\* take a step that changes its state, it eventually does.
FairSpec == Spec /\ WF_vars(Next)

(***************************************************************************)
(* grepr: find_lines.                                                      *)
(***************************************************************************)
\* b"Lorem\nIpsum\r\nDOLOR", the text of test_find_lines.
TestText ==
    <<76, 111, 114, 101, 109, 10, 73, 112, 115, 117, 109, 13, 10,
      68, 79, 76, 79, 82>>

\* "o", "O", "\n" and a byte that is never part of valid UTF-8.
GrepBytes == {111, 79, 10, 255}

Inputs == UNION {[1..n -> GrepBytes] : n \in 0..MaxBytes} \cup {TestText}

\* Regex::new(text), or RegexBuilder::new(text).case_insensitive(true), for
\* the literals "", "o", "oo" and the "or" of test_find_lines.
Patterns ==
    {[text |-> <<>>, ci |-> FALSE],
     [text |-> <<111>>, ci |-> FALSE],
     [text |-> <<111>>, ci |-> TRUE],
     [text |-> <<111, 111>>, ci |-> FALSE],
     [text |-> <<111, 114>>, ci |-> FALSE],
     [text |-> <<111, 114>>, ci |-> TRUE]}

\* Regex::is_match for a literal pattern: the literal occurs in s, letter
\* case ignored when the pattern is case-insensitive.
is_match(pat, s) ==
    LET p == IF pat.ci THEN to_lowercase(pat.text) ELSE pat.text
        t == IF pat.ci THEN to_lowercase(s) ELSE s
    IN  \E k \in 0..(Len(t) - Len(p)) : SubSeq(t, k + 1, k + Len(p)) = p

\* BufRead::read_line: the bytes up to and including the first "\n", or all
\* that is left; an error when they are not valid UTF-8.
read_line(f) ==
    LET nl == {i \in 1..Len(f) : f[i] = 10}
        n == IF nl = {} THEN Len(f) ELSE CHOOSE i \in nl : \A j \in nl : i <= j
        got == SubSeq(f, 1, n)
    IN  [bytes |-> n, line |-> got, rest |-> SubSeq(f, n + 1, Len(f)),
         ok |-> \A i \in 1..n : got[i] < 128]

\* Mutant of clear: the buffer is left as it is.
clearMissing(bytes) == bytes

\* buffer.clear()
clear(bytes) == <<>>

\* One pass of the loop after a read of line: read_line has appended line to
\* the buffer; a hit moves the buffer into results (mem::take leaves it
\* empty); the buffer is cleared.
LoopBody(held, res, line, pat, inv) ==
    LET filled == held \o line
        hit == is_match(pat, filled) # inv
    IN  [results |-> IF hit THEN Append(res, filled) ELSE res,
         buffer |-> clear(IF hit THEN <<>> ELSE filled)]

\* commr is not run.
CommrIdle ==
    /\ config = [file1 |-> Dash, file2 |-> PathF,
                 show_col1 |-> TRUE, show_col2 |-> TRUE, show_col3 |-> TRUE,
                 insensitive |-> FALSE, delimiter |-> Tab]
    /\ CommrStart

\* find_lines(Cursor::new(&text), &pattern, false) is entered.
GrepInit ==
    /\ CommrIdle
    /\ FortuneIdle
    /\ input \in Inputs
    /\ pattern \in Patterns
    /\ invert_match = FALSE
    /\ file = input
    /\ buffer = <<>>
    /\ results = <<>>
    /\ matches = <<>>
    /\ grep_pc = "loop"

\* read_line returned Ok(bytes) with bytes > 0: one pass of the loop.
GrepLine ==
    /\ grep_pc = "loop"
    /\ read_line(file).bytes # 0
    /\ read_line(file).ok
    /\ LET r == read_line(file)
           b == LoopBody(buffer, results, r.line, pattern, invert_match)
       IN  /\ file' = r.rest
           /\ buffer' = b.buffer
           /\ results' = b.results
    /\ UNCHANGED <<input, pattern, invert_match, matches, grep_pc>>
    /\ UNCHANGED commr_vars
    /\ UNCHANGED fortuner_vars

\* read_line returned Err: the ? operator returns it from find_lines.
GrepReadErr ==
    /\ grep_pc = "loop"
    /\ read_line(file).bytes # 0
    /\ ~read_line(file).ok
    /\ file' = read_line(file).rest
    /\ grep_pc' = "failed"
    /\ UNCHANGED <<input, pattern, invert_match, buffer, results, matches>>
    /\ UNCHANGED commr_vars
    /\ UNCHANGED fortuner_vars

\* read_line returned Ok(0): break, and Ok(results).
GrepEof ==
    /\ grep_pc = "loop"
    /\ read_line(file).bytes = 0
    /\ grep_pc' = "returned"
    /\ UNCHANGED <<input, pattern, invert_match, file, buffer, results, matches>>
    /\ UNCHANGED commr_vars
    /\ UNCHANGED fortuner_vars

\* The caller keeps the result and calls find_lines on the same text and
\* pattern with invert_match = true, as test_find_lines does.
GrepCallInverted ==
    /\ grep_pc = "returned"
    /\ ~invert_match
    /\ matches' = results
    /\ invert_match' = TRUE
    /\ file' = input
    /\ buffer' = <<>>
    /\ results' = <<>>
    /\ grep_pc' = "loop"
    /\ UNCHANGED <<input, pattern>>
    /\ UNCHANGED commr_vars
    /\ UNCHANGED fortuner_vars

GrepNext ==
    \/ GrepLine
    \/ GrepReadErr
    \/ GrepEof
    \/ GrepCallInverted

GrepSpec == GrepInit /\ [][GrepNext]_vars

(***************************************************************************)
(* fortuner: read_fortunes.                                                *)
(***************************************************************************)
Percent == <<37>>                                  \* "%"
LineX == <<120>>                                   \* "x"
LineY == <<121>>                                   \* "y"
Newline == <<10>>                                  \* "\n"

FortuneItems == {OkLine(Percent), OkLine(LineX), OkLine(LineY), BadLine}

FileContents == UNION {[1..n -> FortuneItems] : n \in 0..MaxFileLines}

\* The file name of the i-th path: "a", "b", ...
FileName(i) == <<96 + i>>

\* The slices read_fortunes is called on: none, one or two files (as in
\* test_read_fortunes), each with its name and the content of its stream.
PathLists ==
    UNION {{[i \in 1..n |-> [name |-> FileName(i), lines |-> c[i]]] :
                c \in [1..n -> FileContents]} : n \in 0..2}

\* The body of the for loop over the lines: a "%" line closes the record held
\* in buf (a fortune when buf is not empty) and clears buf; any other line is
\* pushed on buf.
OnLine(line, held, fs, name) ==
    IF line = Percent
    THEN [fortunes |-> IF held # <<>>
                       THEN Append(fs, [source |-> name,
                                        text |-> join(held, Newline)])
                       ELSE fs,
          buf |-> <<>>]
    ELSE [fortunes |-> fs, buf |-> Append(held, line)]

\* read_fortunes(&paths) is entered: fortunes and buf are empty vectors.
FortuneInit ==
    /\ CommrIdle
    /\ GrepIdle
    /\ paths \in PathLists
    /\ fortunes = <<>>
    /\ buf = <<>>
    /\ path_idx = 0
    /\ line_idx = 0
    /\ basename = <<>>
    /\ fortune_pc = "next"

\* for path in paths: the basename is taken and File::open succeeds.
FortuneOpenOk ==
    /\ fortune_pc = "next"
    /\ path_idx < Len(paths)
    /\ path_idx' = path_idx + 1
    /\ basename' = paths[path_idx + 1].name
    /\ line_idx' = 0
    /\ fortune_pc' = "lines"
    /\ UNCHANGED <<paths, fortunes, buf>>
    /\ UNCHANGED commr_vars
    /\ UNCHANGED grepr_vars

\* File::open fails: the ? operator returns the error.
FortuneOpenErr ==
    /\ fortune_pc = "next"
    /\ path_idx < Len(paths)
    /\ path_idx' = path_idx + 1
    /\ basename' = paths[path_idx + 1].name
    /\ fortune_pc' = "failed"
    /\ UNCHANGED <<paths, fortunes, buf, line_idx>>
    /\ UNCHANGED commr_vars
    /\ UNCHANGED grepr_vars

\* One pass of the loop over lines().filter_map(Result::ok): Err results
\* are skipped, the next Ok line is handled.
FortuneLine ==
    /\ fortune_pc = "lines"
    /\ FirstOk(paths[path_idx].lines, line_idx) # 0
    /\ LET i == FirstOk(paths[path_idx].lines, line_idx)
           r == OnLine(paths[path_idx].lines[i].text, buf, fortunes, basename)
       IN  /\ line_idx' = i
           /\ fortunes' = r.fortunes
           /\ buf' = r.buf
    /\ UNCHANGED <<paths, path_idx, basename, fortune_pc>>
    /\ UNCHANGED commr_vars
    /\ UNCHANGED grepr_vars

\* No Ok line is left: at end-of-data the loop over the lines ends and the
\* next path is taken (buf is left as it is); on a stream whose reads keep
\* failing filter_map asks again for ever.
FortuneEndOfFile ==
    /\ fortune_pc = "lines"
    /\ FirstOk(paths[path_idx].lines, line_idx) = 0
    /\ \E e \in EndOutcomes :
          fortune_pc' = IF e = "ioerr" THEN "reading" ELSE "next"
    /\ line_idx' = Len(paths[path_idx].lines)
    /\ UNCHANGED <<paths, fortunes, buf, path_idx, basename>>
    /\ UNCHANGED commr_vars
    /\ UNCHANGED grepr_vars

\* Inside the lines iterator on a stream whose reads keep failing.
FortuneReadRetry ==
    /\ fortune_pc = "reading"
    /\ UNCHANGED vars

\* The paths are exhausted: Ok(fortunes).
FortuneReturn ==
    /\ fortune_pc = "next"
    /\ path_idx = Len(paths)
    /\ fortune_pc' = "returned"
    /\ UNCHANGED <<paths, fortunes, buf, path_idx, line_idx, basename>>
    /\ UNCHANGED commr_vars
    /\ UNCHANGED grepr_vars

FortuneNext ==
    \/ FortuneOpenOk
    \/ FortuneOpenErr
    \/ FortuneLine
    \/ FortuneEndOfFile
    \/ FortuneReadRetry
    \/ FortuneReturn

FortuneSpec == FortuneInit /\ [][FortuneNext]_vars

(***************************************************************************)
(* Notions the properties are stated with.                                 *)
(***************************************************************************)
\* The line sequence a source yields: its Ok results, folded under -i.
Produced(stream) ==
    LET oks == SelectSeq(stream, LAMBDA it : it.ok)
    IN  [i \in 1..Len(oks) |->
            IF config.insensitive THEN to_lowercase(oks[i].text)
            ELSE oks[i].text]

LogTexts == [i \in 1..Len(log) |-> log[i].text]

\* The texts of the iterations whose class is in K, in order.
TextsOf(K) ==
    LET sel == SelectSeq(log, LAMBDA e : e.class \in K)
    IN  [i \in 1..Len(sel) |-> sel[i].text]

Count(seq, t) == Cardinality({i \in 1..Len(seq) : seq[i] = t})

Ascending(seq) ==
    \A i \in 1..(Len(seq) - 1) : Cmp(seq[i], seq[i + 1]) # "Greater"

Least(a, b) == IF a < b THEN a ELSE b

Suffix(seq, n) == SubSeq(seq, Len(seq) - n + 1, Len(seq))

EndsWith(s, t) == Len(t) <= Len(s) /\ Suffix(s, Len(t)) = t

IsSubstring(p, m) ==
    \E k \in 0..(Len(m) - Len(p)) : SubSeq(m, k + 1, k + Len(p)) = p

Finished == pc = "done" /\ result = Ok

AllShown == config.show_col1 /\ config.show_col2 /\ config.show_col3

\* A finished run of the concrete scenario (tab delimiter, case-sensitive)
\* under the given column visibility.
ScenarioRun(c1, c2, c3) ==
    /\ Finished
    /\ stream1 = ScenarioA
    /\ stream2 = ScenarioB
    /\ config.show_col1 = c1
    /\ config.show_col2 = c2
    /\ config.show_col3 = c3
    /\ config.delimiter = Tab
    /\ ~config.insensitive

(***************************************************************************)
(* C1.  As claimed: the scenario with columns 1 and 2 suppressed writes    *)
(* the four lines apple, banana, cherry, date.                             *)
(***************************************************************************)
C1_FourLines ==
    ScenarioRun(FALSE, FALSE, TRUE) => stdout = <<apple, banana, cherry, date>>

\* C1, amended.  The scenario with columns 1 and 2 suppressed writes exactly
\* the three lines banana, cherry, date: apple is met in state Both, goes
\* through print as Col1 and is suppressed; the common lines are bare text;
\* date is written by the (None, Some) arm.
C1_ThreeLines ==
    ScenarioRun(FALSE, FALSE, TRUE) =>
        /\ stdout = <<banana, cherry, date>>
        /\ Len(log) = 4
        /\ log[1].class = "Col1" /\ log[1].text = apple /\ log[1].out = <<>>
        /\ log[4].class = "Raw2"

C1_Witness ==
    ScenarioRun(FALSE, FALSE, TRUE) /\ Len(stdout) = 3

(***************************************************************************)
(* C2.  The scenario with all three columns shown writes apple,            *)
(* <TAB><TAB>banana, <TAB><TAB>cherry, date; date is written with source A *)
(* exhausted and carries no leading tabs.                                  *)
(***************************************************************************)
C2_DefaultScenario ==
    ScenarioRun(TRUE, TRUE, TRUE) =>
        /\ stdout = <<apple, Tab \o Tab \o banana, Tab \o Tab \o cherry, date>>
        /\ log[4].state = "OnlyB"

C2_Witness ==
    ScenarioRun(TRUE, TRUE, TRUE) /\ Len(stdout) = 4

(***************************************************************************)
(* C3.  When both sources yield the same line sequence S, every iteration  *)
(* is made in state Both with class Col3, on the lines of S in order, and  *)
(* a finished run has made exactly Len(S) iterations.                      *)
(***************************************************************************)
C3_SelfCompare ==
    (opened1 /\ opened2 /\ Produced(stream1) = Produced(stream2)) =>
        LET S == Produced(stream1)
        IN  /\ Len(log) <= Len(S)
            /\ \A i \in 1..Len(log) :
                  /\ log[i].state = "Both"
                  /\ log[i].class = "Col3"
                  /\ log[i].text = S[i]
            /\ (Finished => Len(log) = Len(S))

C3_Witness ==
    /\ Finished
    /\ Produced(stream1) = Produced(stream2)
    /\ stream1 # stream2
    /\ Len(log) >= 1
    /\ \E i \in 1..Len(stream1) : ~stream1[i].ok

C3_WitnessSameFile ==
    /\ Finished
    /\ config.file1 = config.file2
    /\ Len(log) >= 3

(***************************************************************************)
(* C4.  Under -i, an iteration that finds pending lines whose source texts *)
(* differ at most in letter case has class Col3, its text is the           *)
(* lower-cased text, both sources are asked for their next line, and with  *)
(* column 3 shown the line written ends with the lower-cased text.         *)
(***************************************************************************)
C4_FoldedCommon ==
    [][ ( /\ pc = "loop"
          /\ pc' = "loop"
          /\ config.insensitive
          /\ line1 # None
          /\ line2 # None
          /\ to_lowercase(stream1[pos1].text) = to_lowercase(stream2[pos2].text) )
        => LET folded == to_lowercase(stream1[pos1].text)
           IN  /\ Len(log') = Len(log) + 1
               /\ log'[Len(log')].class = "Col3"
               /\ log'[Len(log')].text = folded
               /\ pulls1' = pulls1 + 1
               /\ pulls2' = pulls2 + 1
               /\ pos1' > pos1 \/ line1' = None
               /\ pos2' > pos2 \/ line2' = None
               /\ IF config.show_col3
                  THEN /\ Len(stdout') = Len(stdout) + 1
                       /\ EndsWith(stdout'[Len(stdout')], folded)
                  ELSE stdout' = stdout
      ]_vars

C4_Witness ==
    /\ config.insensitive
    /\ config.show_col3
    /\ \E i \in 1..Len(log) :
          /\ log[i].class = "Col3"
          /\ stream1[log[i].at1].text # stream2[log[i].at2].text
          /\ log[i].text = LowerA
          /\ log[i].out # <<>>

(***************************************************************************)
(* C5.  With both identifiers "-", run returns the error                   *)
(* `Both input files cannot be STDIN ("-")` with nothing opened, nothing   *)
(* read and nothing written; with any other pair that error never occurs.  *)
(***************************************************************************)
C5_StdinRejected ==
    /\ (config.file1 = Dash /\ config.file2 = Dash /\ pc # "start")
          => (pc = "done" /\ result = Err(StdinMsg))
    /\ (config.file1 = Dash /\ config.file2 = Dash)
          => /\ ~opened1 /\ ~opened2
             /\ pos1 = 0 /\ pos2 = 0 /\ pulls1 = 0 /\ pulls2 = 0
             /\ stdout = <<>>
    /\ result.msg = StdinMsg
          => (config.file1 = Dash /\ config.file2 = Dash)

C5_Witness ==
    pc = "done" /\ result = Err(StdinMsg)

(***************************************************************************)
(* C6.  In a finished run over ascending line sequences with all columns   *)
(* shown, every iteration writes one line, which ends with its text; the   *)
(* texts are ascending, and each text t occurs Least(a, b) times as common *)
(* (Col3), a - Least(a, b) times as a line of A and b - Least(a, b) times  *)
(* as a line of B, a and b being its numbers of occurrences in A and B:    *)
(* the texts are the sorted merge, a matched pair appearing once.          *)
(***************************************************************************)
C6_SortedMerge ==
    (Finished /\ AllShown
        /\ Ascending(Produced(stream1)) /\ Ascending(Produced(stream2))) =>
        LET P1 == Produced(stream1)
            P2 == Produced(stream2)
            texts == {P1[i] : i \in 1..Len(P1)} \cup {P2[i] : i \in 1..Len(P2)}
        IN  /\ Len(stdout) = Len(log)
            /\ \A i \in 1..Len(log) :
                  /\ Len(log[i].out) = 1
                  /\ stdout[i] = log[i].out[1]
                  /\ EndsWith(stdout[i], log[i].text)
                  /\ log[i].text \in texts
            /\ Ascending(LogTexts)
            /\ \A t \in texts :
                  LET a == Count(P1, t)
                      b == Count(P2, t)
                  IN  /\ Count(TextsOf({"Col3"}), t) = Least(a, b)
                      /\ Count(TextsOf({"Col1", "Raw1"}), t) = a - Least(a, b)
                      /\ Count(TextsOf({"Col2", "Raw2"}), t) = b - Least(a, b)

C6_Witness ==
    /\ Finished /\ AllShown
    /\ Ascending(Produced(stream1)) /\ Ascending(Produced(stream2))
    /\ Len(log) >= 3
    /\ \E i \in 1..Len(log) : log[i].class = "Col1"
    /\ \E i \in 1..Len(log) : log[i].class = "Col3"
    /\ \E i \in 1..Len(log) : log[i].class = "Raw2"

(***************************************************************************)
(* C7.  An iteration made with one source exhausted writes its pending     *)
(* line as it is, whatever the column visibility and the delimiter; every  *)
(* later iteration is made in the same state (never again in Both); and in *)
(* a finished run the lines so written are the last lines the other        *)
(* source yielded, in order, and the last lines of the output.             *)
(***************************************************************************)
C7_RawTail ==
    /\ \A i \in 1..Len(log) :
          log[i].state # "Both" =>
              /\ log[i].out = <<log[i].text>>
              /\ \A j \in i..Len(log) : log[j].state = log[i].state
    /\ (pc = "loop" /\ log # <<>> /\ log[Len(log)].state # "Both")
          => MergeState(line1, line2) \in {log[Len(log)].state, "Done"}
    /\ Finished =>
          LET raw1 == TextsOf({"Raw1"})
              raw2 == TextsOf({"Raw2"})
          IN  /\ raw1 = <<>> \/ raw2 = <<>>
              /\ Len(raw1) <= Len(Produced(stream1))
              /\ Len(raw2) <= Len(Produced(stream2))
              /\ raw1 = Suffix(Produced(stream1), Len(raw1))
              /\ raw2 = Suffix(Produced(stream2), Len(raw2))
              /\ Len(raw1) + Len(raw2) <= Len(stdout)
              /\ Suffix(stdout, Len(raw1) + Len(raw2)) = raw1 \o raw2
              /\ (Produced(stream1) = <<>> => raw2 = Produced(stream2))
              /\ (Produced(stream2) = <<>> => raw1 = Produced(stream1))

C7_Witness ==
    /\ Finished
    /\ Produced(stream1) = <<>>
    /\ Len(Produced(stream2)) >= 2
    /\ ~config.show_col2
    /\ ~config.show_col3
    /\ config.delimiter = Comma
    /\ stdout = Produced(stream2)

C7_WitnessAfterBoth ==
    /\ Finished
    /\ ~config.show_col1
    /\ Len(log) >= 3
    /\ log[1].state = "Both"
    /\ log[Len(log) - 1].state = "OnlyA"
    /\ log[Len(log)].state = "OnlyA"

(***************************************************************************)
(* C8.  A failed open makes run return an error whose message contains the *)
(* path that failed, with nothing written and nothing read from either     *)
(* source; no line is pulled before both sources are open.                 *)
(***************************************************************************)
C8_OpenError ==
    /\ (pulls1 > 0 \/ pulls2 > 0 \/ pos1 > 0 \/ pos2 > 0 \/ stdout # <<>>)
          => (opened1 /\ opened2)
    /\ (result.tag = "Err" /\ result.msg # StdinMsg) =>
          /\ pc = "done"
          /\ ~opened1 \/ ~opened2
          /\ IsSubstring(IF ~opened1 THEN config.file1 ELSE config.file2,
                         result.msg)
          /\ stdout = <<>>
          /\ pos1 = 0 /\ pos2 = 0 /\ pulls1 = 0 /\ pulls2 = 0

C8_Witness ==
    /\ result.tag = "Err"
    /\ opened1
    /\ ~opened2
    /\ Produced(stream1) # <<>>
    /\ IsSubstring(config.file2, result.msg)

(***************************************************************************)
(* C9.  Once both sources are open, the loop eventually reaches Done and   *)
(* run returns Ok: no Line Source blocks for ever.                         *)
(***************************************************************************)
C9_ReachesDone == (opened1 /\ opened2) ~> Finished

\* What does hold: once both sources are open, run either returns Ok or is
\* inside lines.next() on a stream whose reads keep failing.
C9_DoneOrBlocked ==
    (opened1 /\ opened2) ~> (Finished \/ pc \in {"reading1", "reading2"})

(***************************************************************************)
(* C10.  When both calls of find_lines have returned Ok, the call with     *)
(* invert_match = false has returned exactly the lines of the input that   *)
(* match and the call with invert_match = true exactly those that do not,  *)
(* each list in input order and each line with its terminator; the lengths *)
(* sum to the number of lines, a last line without terminator included.    *)
(* On the text of test_find_lines the counts are 1 and 2 for "or", and 2   *)
(* and 1 for the case-insensitive "or".                                    *)
(***************************************************************************)
\* The lines of text, each with its "\n" when it has one.
SplitLines(text) ==
    LET ends == {i \in 1..Len(text) : text[i] = 10 \/ i = Len(text)}
        start(e) == IF \E d \in ends : d < e
                    THEN 1 + CHOOSE d \in ends :
                                d < e /\ \A c \in ends : c < e => c <= d
                    ELSE 1
        order == CHOOSE f \in [1..Cardinality(ends) -> ends] :
                    \A i, j \in 1..Cardinality(ends) : i < j => f[i] < f[j]
    IN  [k \in 1..Cardinality(ends) |-> SubSeq(text, start(order[k]), order[k])]

BothReturned == grep_pc = "returned" /\ invert_match

C10_Partition ==
    BothReturned =>
        LET lines == SplitLines(input)
            hit(l) == is_match(pattern, l)
            miss(l) == ~is_match(pattern, l)
        IN  /\ matches = SelectSeq(lines, hit)
            /\ results = SelectSeq(lines, miss)
            /\ Len(matches) + Len(results) = Len(lines)
            /\ \A i \in 1..Len(lines) :
                  Count(matches, lines[i]) + Count(results, lines[i])
                      = Count(lines, lines[i])
            /\ (input = TestText /\ pattern = [text |-> <<111, 114>>, ci |-> FALSE])
                  => (Len(matches) = 1 /\ Len(results) = 2)
            /\ (input = TestText /\ pattern = [text |-> <<111, 114>>, ci |-> TRUE])
                  => (Len(matches) = 2 /\ Len(results) = 1)

C10_Witness ==
    /\ BothReturned
    /\ Len(matches) >= 1
    /\ Len(results) >= 1
    /\ Len(input) >= 3
    /\ input[Len(input)] # 10
    /\ \E i \in 1..Len(matches) : matches[i][Len(matches[i])] = 10

(***************************************************************************)
(* C11.  read_fortunes returns the concatenation, in file order, of the    *)
(* fortunes of each file read on its own: the count is the sum of the      *)
(* per-file counts, every fortune is a non-empty run of lines closed by a  *)
(* "%" line of the file its source names, and empty records give nothing.  *)
(***************************************************************************)
\* The elements of a set of integers, ascending.
Ascend(S) ==
    CHOOSE f \in [1..Cardinality(S) -> S] :
        \A i, j \in 1..Cardinality(S) : i < j => f[i] < f[j]

\* The fortunes of one file read on its own: one for each "%" line that
\* follows a line other than "%", made of the lines since the "%" before.
FortunesOf(f) ==
    LET oks == SelectSeq(f.lines, LAMBDA it : it.ok)
        L == [i \in 1..Len(oks) |-> oks[i].text]
        closers == {i \in 1..Len(L) : L[i] = Percent}
        closing == {c \in closers : c > 1 /\ L[c - 1] # Percent}
        first(c) == IF \E d \in closers : d < c
                    THEN 1 + CHOOSE d \in closers :
                                d < c /\ \A e \in closers : e < c => e <= d
                    ELSE 1
        at == Ascend(closing)
    IN  [k \in 1..Cardinality(closing) |->
            [source |-> f.name,
             text |-> join(SubSeq(L, first(at[k]), at[k] - 1), Newline)]]

RECURSIVE FortunesOfAll(_)
FortunesOfAll(ps) ==
    IF ps = <<>> THEN <<>>
    ELSE FortunesOfAll(SubSeq(ps, 1, Len(ps) - 1)) \o FortunesOf(ps[Len(ps)])

RECURSIVE CountOfAll(_)
CountOfAll(ps) ==
    IF ps = <<>> THEN 0
    ELSE CountOfAll(Tail(ps)) + Len(FortunesOf(ps[1]))

C11_PerFile ==
    fortune_pc = "returned" =>
        /\ fortunes = FortunesOfAll(paths)
        /\ Len(fortunes) = CountOfAll(paths)
        /\ \A k \in 1..Len(fortunes) :
              \E i \in 1..Len(paths) :
                  /\ paths[i].name = fortunes[k].source
                  /\ \E j \in 1..Len(FortunesOf(paths[i])) :
                        FortunesOf(paths[i])[j] = fortunes[k]

\* What does hold: a single file gives its own fortunes, and so does every
\* list whose files, but for the last, leave no line after their last "%".
Closed(f) ==
    LET oks == SelectSeq(f.lines, LAMBDA it : it.ok)
    IN  oks = <<>> \/ oks[Len(oks)].text = Percent

C11_SingleFile ==
    (fortune_pc = "returned" /\ Len(paths) = 1) =>
        fortunes = FortunesOf(paths[1])

C11_ClosedFiles ==
    (fortune_pc = "returned"
        /\ \A i \in 1..(Len(paths) - 1) : Closed(paths[i])) =>
        fortunes = FortunesOfAll(paths)

(***************************************************************************)
(* C12.  An iteration made in state Both classifies the lesser pending     *)
(* line (A's on a tie) and writes, for UniqueA(text): text if show1, else  *)
(* nothing; for UniqueB(text): nothing if !show2, else the cells ("" if    *)
(* show1), text; for Common(text): nothing if !show3, else the cells ("" if *)
(* show1), ("" if show2), text; the cells are joined by the delimiter into *)
(* one line, no cells give no line at all, and the sources are pulled by   *)
(* class alone, whether or not the line was suppressed.                    *)
(***************************************************************************)
\* "" followed by the delimiter when the column is shown.
Pad(shown) == IF shown THEN config.delimiter ELSE <<>>

\* The lines the claim has a classification write.
FormattedAs(class, text) ==
    IF class = "Col1"
    THEN IF config.show_col1 THEN <<text>> ELSE <<>>
    ELSE IF class = "Col2"
    THEN IF ~config.show_col2 THEN <<>>
         ELSE <<Pad(config.show_col1) \o text>>
    ELSE IF ~config.show_col3 THEN <<>>
         ELSE <<Pad(config.show_col1) \o Pad(config.show_col2) \o text>>

C12_Formatter ==
    [][ (pc = "loop" /\ line1 # None /\ line2 # None) =>
            LET e == log'[Len(log')]
            IN  /\ Len(log') = Len(log) + 1
                /\ e.state = "Both"
                /\ e.class \in {"Col1", "Col2", "Col3"}
                /\ e.text = IF e.class = "Col2" THEN line2[1] ELSE line1[1]
                /\ stdout' = stdout \o FormattedAs(e.class, e.text)
                /\ Len(stdout') <= Len(stdout) + 1
                /\ pulls1' = pulls1 + (IF e.class \in {"Col1", "Col3"} THEN 1 ELSE 0)
                /\ pc' = "loop" =>
                      pulls2' = pulls2 + (IF e.class \in {"Col2", "Col3"} THEN 1 ELSE 0)
      ]_vars

C12_Witness ==
    /\ Finished
    /\ config.show_col1 /\ config.show_col2 /\ ~config.show_col3
    /\ config.delimiter = Comma
    /\ Len(log) = 2
    /\ log[1].class = "Col2" /\ log[1].out = <<Comma \o log[1].text>>
    /\ log[2].class = "Col3" /\ log[2].out = <<>>
    /\ stdout = log[1].out
    /\ pulls1 = 2 /\ pulls2 = 3

(***************************************************************************)
(* C13.  Whatever the order of the inputs, the k-th iteration that         *)
(* consumes a line of a source consumes the k-th line of that source: the  *)
(* read position moves forward one line per consumed line, a run that      *)
(* finishes has consumed every line of A and of B exactly once, stdout is  *)
(* the written lines in the order of consumption, and two equal pending    *)
(* lines are consumed together by one Common classification, written as    *)
(* one line (as none when column 3 is hidden).                             *)
(***************************************************************************)
ConsumesA == {"Col1", "Col3", "Raw1"}
ConsumesB == {"Col2", "Col3", "Raw2"}

\* The iterations whose class is in K, in order.
Consumers(K) == SelectSeq(log, LAMBDA e : e.class \in K)

\* The number of the line that the item at index at of the stream carries.
LineNo(stream, at) == Cardinality({j \in 1..at : stream[j].ok})

RECURSIVE Written(_)
Written(entries) ==
    IF entries = <<>> THEN <<>>
    ELSE Written(SubSeq(entries, 1, Len(entries) - 1))
            \o entries[Len(entries)].out

C13_SourceOrder ==
    LET a == Consumers(ConsumesA)
        b == Consumers(ConsumesB)
        P1 == Produced(stream1)
        P2 == Produced(stream2)
    IN  /\ Len(a) <= Len(P1)
        /\ Len(b) <= Len(P2)
        /\ \A k \in 1..Len(a) :
              /\ a[k].at1 \in 1..Len(stream1)
              /\ stream1[a[k].at1].ok
              /\ LineNo(stream1, a[k].at1) = k
              /\ a[k].text = P1[k]
        /\ \A k \in 1..Len(b) :
              /\ b[k].at2 \in 1..Len(stream2)
              /\ stream2[b[k].at2].ok
              /\ LineNo(stream2, b[k].at2) = k
              /\ b[k].text = P2[k]
        /\ \A i \in 1..Len(log) :
              /\ log[i].class \in ConsumesA \cup ConsumesB
              /\ Len(log[i].out) <= 1
              /\ log[i].out # <<>> => EndsWith(log[i].out[1], log[i].text)
              /\ log[i].state = "Both" =>
                    LET n1 == LineNo(stream1, log[i].at1)
                        n2 == LineNo(stream2, log[i].at2)
                    IN  /\ log[i].class = "Col3" <=> P1[n1] = P2[n2]
                        /\ log[i].class = "Col3" =>
                              Len(log[i].out) = IF config.show_col3 THEN 1 ELSE 0
        /\ stdout = Written(log)
        /\ Finished => Len(a) = Len(P1) /\ Len(b) = Len(P2)

C13_Witness ==
    /\ Finished
    /\ AllShown
    /\ ~config.insensitive
    /\ Produced(stream1) = <<LowerA, UpperA>>
    /\ Produced(stream2) = <<LowerA>>
    /\ Len(log) = 2
    /\ log[1].class = "Col3" /\ log[1].at1 = 1 /\ log[1].at2 = 1
    /\ log[2].class = "Raw1" /\ log[2].at1 = 2
    /\ Len(stdout) = 2

(***************************************************************************)
(* C14.  Each source has at most one line that was pulled and is not yet   *)
(* consumed: lines handed out minus lines consumed is 0 or 1, and is 1     *)
(* exactly when a line is pending.  A source is pulled once to prime it    *)
(* and otherwise only by the iteration that consumes its pending line, and *)
(* a source that has reported end-of-data is not pulled again.             *)
(***************************************************************************)
\* Lines the source has handed out so far.
HandedOut1 == LineNo(stream1, pos1)
HandedOut2 == LineNo(stream2, pos2)

Consumed1 == Len(Consumers(ConsumesA))
Consumed2 == Len(Consumers(ConsumesB))

\* The pull of the source has returned None.
ReportedEnd1 ==
    pulls1 > 0 /\ line1 = None /\ pc \in {"prime2", "loop", "reading2", "done"}
ReportedEnd2 ==
    pulls2 > 0 /\ line2 = None /\ pc \in {"loop", "reading1", "done"}

\* No pull is in progress.
BetweenIterations == pc = "loop" \/ Finished

C14_OnePending ==
    /\ [](/\ HandedOut1 - Consumed1 \in {0, 1}
          /\ HandedOut2 - Consumed2 \in {0, 1}
          /\ pulls1 <= 1 + Consumed1
          /\ pulls2 <= 1 + Consumed2
          /\ pulls1 = 0 => Consumed1 = 0 /\ HandedOut1 = 0
          /\ pulls2 = 0 => Consumed2 = 0 /\ HandedOut2 = 0
          /\ BetweenIterations =>
                /\ pulls1 = 1 + Consumed1
                /\ pulls2 = 1 + Consumed2
                /\ HandedOut1 - Consumed1 = (IF line1 # None THEN 1 ELSE 0)
                /\ HandedOut2 - Consumed2 = (IF line2 # None THEN 1 ELSE 0))
    /\ [][ /\ pulls1' # pulls1 =>
                /\ pulls1' = pulls1 + 1
                /\ \/ pc = "prime1" /\ pulls1 = 0
                   \/ /\ pc = "loop"
                      /\ line1 # None
                      /\ Len(log') = Len(log) + 1
                      /\ log'[Len(log')].class \in ConsumesA
                      /\ log'[Len(log')].at1 = pos1
           /\ pulls2' # pulls2 =>
                /\ pulls2' = pulls2 + 1
                /\ \/ pc = "prime2" /\ pulls2 = 0
                   \/ /\ pc = "loop"
                      /\ line2 # None
                      /\ Len(log') = Len(log) + 1
                      /\ log'[Len(log')].class \in ConsumesB
                      /\ log'[Len(log')].at2 = pos2
           /\ ReportedEnd1 => pulls1' = pulls1 /\ pos1' = pos1 /\ line1' = None
           /\ ReportedEnd2 => pulls2' = pulls2 /\ pos2' = pos2 /\ line2' = None
         ]_vars

C14_Witness ==
    /\ Finished
    /\ Len(log) = 2
    /\ log[1].class = "Col3"
    /\ log[2].class = "Raw1"
    /\ pulls1 = 3 /\ pulls2 = 2
    /\ HandedOut1 = 2 /\ HandedOut2 = 1
    /\ Len(stream1) + Len(stream2) = 3

====
